---- MODULE Spec2Model ----
(***************************************************************************)
(* Turn orchestration of the MCP client: src/client.py (MCPClient) and the *)
(* completion adapter / response parser of src/lab_llm.py (LabLLM).        *)
(*                                                                         *)
(* Texts (backend answers, message contents) are sequences of lexical      *)
(* tokens; a token is a sequence of strings whose head is its kind.        *)
(* Python strings that the code inspects (function names, JSON strings)    *)
(* are sequences of chunks, so that startswith and replace are computed.   *)
(***************************************************************************)
EXTENDS Integers, Sequences, FiniteSets, TLC

(***************************************************************************)
(* Bounds of the model.                                                    *)
(***************************************************************************)
\* number of user inputs the interactive loop reads in one behaviour
MaxTurns == 2

(***************************************************************************)
(* Lexical tokens of a text.                                               *)
(***************************************************************************)
LB == <<"{">>
RB == <<"}">>
COLON == <<":">>
COMMA == <<",">>
SP == <<" ">>
NULLTOK == <<"null">>
\* a run of prose containing no JSON punctuation
Word(c) == <<"word", c>>
\* a JSON number literal
Num(n) == <<"num", n>>
\* a JSON string literal whose content is the chunk sequence s
Str(s) == <<"str">> \o s

(***************************************************************************)
(* Python values obtained from JSON: one record shape for every value.     *)
(***************************************************************************)
PyNone == [t |-> "None", s |-> <<>>, kv |-> <<>>]
\* marks a key that a message dict does not have
Absent == [t |-> "absent", s |-> <<>>, kv |-> <<>>]
PyStr(s) == [t |-> "str", s |-> s, kv |-> <<>>]
PyNum(n) == [t |-> "num", s |-> <<n>>, kv |-> <<>>]
\* a dict: kv is its sequence of <<key, value>> items in insertion order
PyDict(kv) == [t |-> "dict", s |-> <<>>, kv |-> kv]

\* Python truthiness: None, "", 0 and {} are falsy
Truthy(v) ==
  CASE v.t = "None" -> FALSE
    [] v.t = "absent" -> FALSE
    [] v.t = "str" -> v.s # <<>>
    [] v.t = "num" -> v.s # <<"0">>
    [] v.t = "dict" -> v.kv # <<>>
    [] OTHER -> TRUE

\* key in d
HasKey(d, k) == \E i \in 1..Len(d.kv) : d.kv[i][1] = k

\* d[k] for a key the dict has
Lookup(d, k) == d.kv[CHOOSE i \in 1..Len(d.kv) : d.kv[i][1] = k][2]

\* d.get(k, default)
DictGet(d, k, default) == IF HasKey(d, k) THEN Lookup(d, k) ELSE default

\* d[k] = v on the item sequence: a repeated key keeps its place, last value wins
DictSet(kv, k, v) ==
  IF \E i \in 1..Len(kv) : kv[i][1] = k
  THEN [i \in 1..Len(kv) |-> IF kv[i][1] = k THEN <<k, v>> ELSE kv[i]]
  ELSE Append(kv, <<k, v>>)

(***************************************************************************)
(* json.loads on a token text.                                             *)
(***************************************************************************)
\* one frame per object being read: its items so far and the key awaiting a value
Frame(kv, key) == [kv |-> kv, key |-> key]

\* a scanner configuration: what is expected next, the open objects, the value read
Config(mode, stack, val) == [mode |-> mode, stack |-> stack, val |-> val]

\* a value v was completed: it is the document, or a member of the innermost object
Reduce(v, stack) ==
  IF stack = <<>> THEN Config("end", <<>>, v)
  ELSE LET top == stack[Len(stack)] IN
       Config("after_member",
              [stack EXCEPT ![Len(stack)] = Frame(DictSet(top.kv, top.key, v), <<>>)],
              PyNone)

\* the configuration after token tok (not whitespace) in configuration c
Shift(c, tok) ==
  LET stack == c.stack
      n == Len(stack)
      popped == SubSeq(stack, 1, n - 1)
  IN CASE c.mode = "value" ->
            IF tok = LB THEN Config("first_key", Append(stack, Frame(<<>>, <<>>)), PyNone)
            ELSE IF tok[1] = "str" THEN Reduce(PyStr(Tail(tok)), stack)
            ELSE IF tok = NULLTOK THEN Reduce(PyNone, stack)
            ELSE IF tok[1] = "num" THEN Reduce(PyNum(tok[2]), stack)
            ELSE Config("error", stack, PyNone)
       [] c.mode \in {"first_key", "key"} ->
            IF tok[1] = "str"
            THEN Config("colon", [stack EXCEPT ![n] = Frame(stack[n].kv, Tail(tok))], PyNone)
            ELSE IF c.mode = "first_key" /\ tok = RB THEN Reduce(PyDict(<<>>), popped)
            ELSE Config("error", stack, PyNone)
       [] c.mode = "colon" ->
            IF tok = COLON THEN Config("value", stack, PyNone)
            ELSE Config("error", stack, PyNone)
       [] c.mode = "after_member" ->
            IF tok = COMMA THEN Config("key", stack, PyNone)
            ELSE IF tok = RB THEN Reduce(PyDict(stack[n].kv), popped)
            ELSE Config("error", stack, PyNone)
       \* "end": anything after the document is extra data
       [] OTHER -> Config("error", stack, PyNone)

\* the configuration after the tokens of txt from position i on
RECURSIVE Scan(_, _, _)
Scan(txt, i, c) ==
  IF i > Len(txt) \/ c.mode = "error" THEN c
  ELSE IF txt[i] = SP THEN Scan(txt, i + 1, c)
  ELSE Scan(txt, i + 1, Shift(c, txt[i]))

\* json.loads(txt): ok = FALSE stands for json.JSONDecodeError
Loaded(c) ==
  IF c.mode = "end"
  THEN [ok |-> TRUE, val |-> c.val]
  ELSE [ok |-> FALSE, val |-> PyNone]

JsonLoads(txt) == Loaded(Scan(txt, 1, Config("value", <<>>, PyNone)))

(***************************************************************************)
(* String helpers of the parser.                                           *)
(***************************************************************************)
FC == <<"function_call">>
\* the literal '{"function_call":'
Marker == <<LB, Str(FC), COLON>>

NotFound == 0 - 1

\* a parser that never looks for a marker inside the text
FindNothing(answer) == NotFound

\* answer.find('{"function_call":'): first offset (1-based here), NotFound if none
Find(answer) ==
  IF \E i \in 1..Len(answer) : i + 2 <= Len(answer) /\ SubSeq(answer, i, i + 2) = Marker
  THEN CHOOSE i \in 1..Len(answer) :
         /\ i + 2 <= Len(answer) /\ SubSeq(answer, i, i + 2) = Marker
         /\ \A j \in 1..(i - 1) : SubSeq(answer, j, j + 2) # Marker
  ELSE NotFound

RECURSIVE LStrip(_)
LStrip(txt) == IF txt # <<>> /\ Head(txt) = SP THEN LStrip(Tail(txt)) ELSE txt

RECURSIVE RStrip(_)
RStrip(txt) ==
  IF txt # <<>> /\ txt[Len(txt)] = SP THEN RStrip(SubSeq(txt, 1, Len(txt) - 1)) ELSE txt

\* str.strip()
Strip(txt) == RStrip(LStrip(txt))

(***************************************************************************)
(* Messages of the conversation log.                                       *)
(***************************************************************************)
\* "content": None
NoContent == [isNone |-> TRUE, text |-> <<>>]
\* "content": a text
Text(t) == [isNone |-> FALSE, text |-> t]

\* a message dict; name and function_call are Absent when the dict has no such key
Message(role, content, name, function_call) ==
  [role |-> role, content |-> content, name |-> name, function_call |-> function_call]

\* stands for "no message" where a record of the message shape is needed
NoMsg == Message("", NoContent, Absent, Absent)

(***************************************************************************)
(* LabLLM.chat_completion: the HTTP status check, the response parser and  *)
(* the message it builds.  A result is [raised, message]: raised names the *)
(* exception that leaves chat_completion, "" when it returns.              *)
(***************************************************************************)
HTTP_OK == 200

\* f"{m['role']}: {m['content']}" for one message
PromptLine(m) ==
  <<Word(m.role), COLON, SP>> \o (IF m.content.isNone THEN <<Word("None")>> ELSE m.content.text)

\* the prompt of the request body: the lines of the messages joined by "\n";
\* nothing else of the arguments of chat_completion goes into the body
RECURSIVE Prompt(_)
Prompt(log) ==
  IF log = <<>> THEN <<>>
  ELSE IF Len(log) = 1 THEN PromptLine(log[1])
  ELSE (PromptLine(Head(log)) \o <<Word("\n")>>) \o Prompt(Tail(log))

\* the exceptions of "except (json.JSONDecodeError, TypeError): pass"
ParserCaught == {"JSONDecodeError", "TypeError"}

\* a handler that catches TypeError only
GuardedNarrow(r, caught) ==
  IF r.ok THEN [exc |-> "", ok |-> TRUE, val |-> r.val]
  ELSE [exc |-> "JSONDecodeError", ok |-> FALSE, val |-> PyNone]

\* a json.loads result r inside a try whose handler catches `caught`:
\* [exc, ok, val], exc = "" unless the exception escapes the handler
Guarded(r, caught) ==
  IF r.ok THEN [exc |-> "", ok |-> TRUE, val |-> r.val]
  ELSE IF "JSONDecodeError" \in caught THEN [exc |-> "", ok |-> FALSE, val |-> PyNone]
  ELSE [exc |-> "JSONDecodeError", ok |-> FALSE, val |-> PyNone]

\* try: json.loads(txt) except (json.JSONDecodeError, TypeError): pass
TryJsonLoads(txt) == Guarded(JsonLoads(txt), ParserCaught)

\* the isinstance/in test on a parse: [exc, val], val is parsed_function_call
\* afterwards (`unchanged` when the test or the parse fails)
CallOf(parsed_json, unchanged) ==
  IF parsed_json.ok /\ parsed_json.val.t = "dict" /\ HasKey(parsed_json.val, FC)
  THEN [exc |-> "", val |-> Lookup(parsed_json.val, FC)]
  ELSE [exc |-> parsed_json.exc, val |-> unchanged]

\* the priority check once json_start is known
CombinedAt(answer, json_start) ==
  IF json_start # NotFound
  THEN CallOf(TryJsonLoads(Strip(SubSeq(answer, json_start, Len(answer)))), PyNone)
  ELSE [exc |-> "", val |-> PyNone]

\* Priority check: text followed by a JSON object
ParseCombined(answer) == CombinedAt(answer, Find(answer))

\* Secondary check: the whole answer as JSON, when no call was found yet
ParsePure(answer, parsed_function_call) ==
  IF ~Truthy(parsed_function_call)
  THEN CallOf(TryJsonLoads(answer), parsed_function_call)
  ELSE [exc |-> "", val |-> parsed_function_call]

\* the secondary check after the priority check left `combined`
AfterCombined(answer, combined) ==
  IF combined.exc # "" THEN combined ELSE ParsePure(answer, combined.val)

\* a parser that looks for a call whatever function_call says
ParseFunctionCallAlways(answer, function_call) ==
  AfterCombined(answer, ParseCombined(answer))

\* step 1 of the parser: parsed_function_call when the message is built
ParseFunctionCall(answer, function_call) ==
  IF function_call # "none"
  THEN AfterCombined(answer, ParseCombined(answer))
  ELSE [exc |-> "", val |-> PyNone]

\* step 2 of the parser: the message of the returned choice
BuildMessage(answer, parsed_function_call) ==
  IF Truthy(parsed_function_call)
  THEN Message("assistant", NoContent, Absent, parsed_function_call)
  ELSE Message("assistant", Text(answer), Absent, Absent)

\* what chat_completion returns or raises once the parser is through
Returned(answer, parsed) ==
  IF parsed.exc # ""
  THEN [raised |-> parsed.exc, message |-> NoMsg]
  ELSE [raised |-> "", message |-> BuildMessage(answer, parsed.val)]

\* a completion that does not look at the HTTP status
ChatCompletionUnchecked(status, answer, function_call) ==
  Returned(answer, ParseFunctionCall(answer, function_call))

\* chat_completion(messages, functions, function_call) when the backend
\* answers with `status` and the text `answer`
ChatCompletion(status, answer, function_call) ==
  IF status # HTTP_OK
  THEN [raised |-> "LabLLMError", message |-> NoMsg]
  ELSE Returned(answer, ParseFunctionCall(answer, function_call))

(***************************************************************************)
(* Python string operations on chunk sequences.                            *)
(***************************************************************************)
GET_RESOURCE == "get_resource_"
USE_PROMPT == "use_prompt_"

\* s.startswith(prefix)
StartsWith(s, prefix) == s # <<>> /\ s[1] = prefix

\* s.replace(prefix, ""): every occurrence is removed
Replace(s, prefix) == SelectSeq(s, LAMBDA c : c # prefix)

\* the text a chunk of a string spells, as tokens
ChunkTokens(c) ==
  CASE c = "{}" -> <<LB, RB>>
    [] c = "{\"a\":2}" -> <<LB, Str(<<"a">>), COLON, Num("2"), RB>>
    [] c = "null" -> <<NULLTOK>>
    [] c = "5" -> <<Num("5")>>
    [] OTHER -> <<Word(c)>>

\* the content of a Python string read as a text
RECURSIVE Lex(_)
Lex(s) == IF s = <<>> THEN <<>> ELSE ChunkTokens(Head(s)) \o Lex(Tail(s))

(***************************************************************************)
(* The capability provider and the registry fetched from it.               *)
(***************************************************************************)
ProviderTools == << [name |-> <<"add">>] >>
ProviderResources == << [name |-> <<"alpha">>, uri |-> "file:///alpha"] >>
ProviderPrompts == << [name |-> <<"greeting">>] >>

\* what a provider operation does: raise, return nothing, or return a text
ProviderOutcomes ==
  { [kind |-> "raise", text |-> <<>>],
    [kind |-> "empty", text |-> <<>>],
    [kind |-> "text", text |-> <<Word("provider payload")>>] }

\* build_system_tools(tools): the tool section of the system message
BuildSystemTools(tls) ==
  <<Word("Rules")>> \o [i \in 1..Len(tls) |-> <<"word", "Tool name:">> \o tls[i].name]

SYSTEM_MESSAGE == <<Word("system_message.txt")>>

(***************************************************************************)
(* Events of a turn (history): appends to the log, completions requested   *)
(* from the backend, operations invoked on the provider.                   *)
(***************************************************************************)
Event(op, mode, status, text, functions, msg, name, args, uri, prompt) ==
  [op |-> op, mode |-> mode, status |-> status, text |-> text, functions |-> functions,
   msg |-> msg, name |-> name, args |-> args, uri |-> uri, prompt |-> prompt]

AppendEv(msg) == Event("append", "", 0, <<>>, <<>>, msg, Absent, Absent, "", <<>>)
\* a completion: the functions argument, the prompt of the request body,
\* the status and the answer of the backend
CompleteEv(mode, status, answer, functions, prompt) ==
  Event("complete", mode, status, answer, functions, NoMsg, Absent, Absent, "", prompt)
\* a provider operation: mode is what it did ("raise", "empty" or "text")
CallToolEv(name, args, outcome) ==
  Event("call_tool", outcome.kind, 0, <<>>, <<>>, NoMsg, name, args, "", <<>>)
ReadResourceEv(uri, outcome) ==
  Event("read_resource", outcome.kind, 0, <<>>, <<>>, NoMsg, Absent, Absent, uri, <<>>)
GetPromptEv(name, outcome) ==
  Event("get_prompt", outcome.kind, 0, <<>>, <<>>, NoMsg, name, Absent, "", <<>>)
\* a listing at session start: mode tells whether it returned ("ok") or raised
ListEv(op, ok) ==
  Event(op, IF ok THEN "ok" ELSE "raise", 0, <<>>, <<>>, NoMsg, Absent, Absent, "", <<>>)

ProviderOps == {"call_tool", "read_resource", "get_prompt"}

(***************************************************************************)
(* MCPClient.process_query: projection, argument decoding, dispatch.       *)
(***************************************************************************)
\* a projection that gives resources their plain name
ProjectFunctionsNoPrefix(tls, rsc, prm) ==
  [i \in 1..Len(tls) |-> tls[i].name]
    \o [i \in 1..Len(rsc) |-> rsc[i].name]
    \o [i \in 1..Len(prm) |-> <<USE_PROMPT>> \o prm[i].name]

\* the names of `functions`: tools, then resources, then prompts
ProjectFunctions(tls, rsc, prm) ==
  [i \in 1..Len(tls) |-> tls[i].name]
    \o [i \in 1..Len(rsc) |-> <<GET_RESOURCE>> \o rsc[i].name]
    \o [i \in 1..Len(prm) |-> <<USE_PROMPT>> \o prm[i].name]

\* a decoding whose failure leaves args unset
DecodedOrNone(r) == IF r.ok THEN r.val ELSE PyNone

\* json.loads(fn_args) under "except Exception: args = {}"
DecodedOrEmpty(r) == IF r.ok THEN r.val ELSE PyDict(<<>>)

\* args from fn_args
NormalizeArgs(fn_args) ==
  IF fn_args.t = "str"
  THEN IF fn_args.s = <<>> THEN PyDict(<<>>) ELSE DecodedOrEmpty(JsonLoads(Lex(fn_args.s)))
  ELSE IF fn_args.t = "dict" THEN fn_args
  ELSE PyDict(<<>>)

NotFoundText(res_name) == << <<"word", "Resource '">> \o res_name \o <<"' not found.">> >>
EmptyText(res_name) == << <<"word", "Resource '">> \o res_name \o <<"' is empty or unreadable.">> >>
StrOfResult == <<Word("str(result)")>>
ResultSuffix ==
  Word("Show these results in natural language. State that nothing has been retrieved if that is the case.")

\* next((r for r in resources if r.name == res_name), None): index of the first match, 0 if none
FirstResource(rsc, res_name) ==
  IF \E i \in 1..Len(rsc) : rsc[i].name = res_name
  THEN CHOOSE i \in 1..Len(rsc) :
         rsc[i].name = res_name /\ \A j \in 1..(i - 1) : rsc[j].name # res_name
  ELSE 0

DispatchResult(raised, ops, fn_name, text) ==
  [raised |-> raised, ops |-> ops, fn_name |-> fn_name, text |-> text]

\* the resource branch
DispatchResource(fn_name, rsc, outcome) ==
  LET res_name == Replace(fn_name.s, GET_RESOURCE)
      r == FirstResource(rsc, res_name)
  IN IF r = 0
     THEN DispatchResult("", <<>>, fn_name, NotFoundText(res_name))
     ELSE LET ops == <<ReadResourceEv(rsc[r].uri, outcome)>> IN
          IF outcome.kind = "raise" THEN DispatchResult("ProviderError", ops, fn_name, <<>>)
          ELSE IF outcome.kind = "text" THEN DispatchResult("", ops, fn_name, outcome.text)
          ELSE DispatchResult("", ops, fn_name, EmptyText(res_name))

\* the prompt branch
DispatchPrompt(fn_name, outcome) ==
  LET prompt_name == Replace(fn_name.s, USE_PROMPT)
      ops == <<GetPromptEv(PyStr(prompt_name), outcome)>>
  IN IF outcome.kind = "raise" THEN DispatchResult("ProviderError", ops, fn_name, <<>>)
     ELSE IF outcome.kind = "text" THEN DispatchResult("", ops, fn_name, outcome.text)
     ELSE DispatchResult("", ops, fn_name, StrOfResult)

\* a tool branch that calls the tool again when it returned nothing
DispatchToolRetry(fn_name, args, outcome) ==
  IF outcome.kind = "raise"
  THEN DispatchResult("ProviderError", <<CallToolEv(fn_name, args, outcome)>>, fn_name, <<>>)
  ELSE IF outcome.kind = "text"
  THEN DispatchResult("", <<CallToolEv(fn_name, args, outcome)>>, fn_name, outcome.text)
  ELSE DispatchResult("", <<CallToolEv(fn_name, args, outcome), CallToolEv(fn_name, args, outcome)>>, fn_name, <<>>)

\* the tool branch
DispatchTool(fn_name, args, outcome) ==
  LET ops == <<CallToolEv(fn_name, args, outcome)>> IN
  IF outcome.kind = "raise" THEN DispatchResult("ProviderError", ops, fn_name, <<>>)
  ELSE IF outcome.kind = "text" THEN DispatchResult("", ops, fn_name, outcome.text)
  ELSE DispatchResult("", ops, fn_name, <<>>)

\* the branch on the prefix of fn_name, once fn_name and args are known
DispatchNamed(fn_name, args, rsc, outcome) ==
  IF fn_name.t # "str" THEN DispatchResult("AttributeError", <<>>, fn_name, <<>>)
  ELSE IF StartsWith(fn_name.s, GET_RESOURCE) THEN DispatchResource(fn_name, rsc, outcome)
  ELSE IF StartsWith(fn_name.s, USE_PROMPT) THEN DispatchPrompt(fn_name, outcome)
  ELSE DispatchTool(fn_name, args, outcome)

\* from fn_call to result_content: the provider operations invoked, the
\* result text, or the exception raised
Dispatch(fn_call, rsc, outcome) ==
  IF fn_call.t # "dict" THEN DispatchResult("AttributeError", <<>>, PyNone, <<>>)
  ELSE DispatchNamed(DictGet(fn_call, <<"name">>, PyNone),
                     NormalizeArgs(DictGet(fn_call, <<"arguments">>, PyDict(<<>>))),
                     rsc, outcome)

\* a function message named after the stripped resource name
FunctionMessageStripped(fn_name, result_content) ==
  Message("function", Text(result_content \o <<ResultSuffix>>),
          PyStr(Replace(fn_name.s, GET_RESOURCE)), Absent)

\* the function message appended after the dispatch
FunctionMessage(fn_name, result_content) ==
  Message("function", Text(result_content \o <<ResultSuffix>>), fn_name, Absent)

\* msg.get(key) on a message: None when the key is absent
MsgGet(v) == IF v.t = "absent" THEN PyNone ELSE v

(***************************************************************************)
(* Inputs: what the user types and what the backend answers.               *)
(***************************************************************************)
Query == <<Word("add 2 and 3")>>
Quit == <<Word("quit")>>
Inputs == {Query, Quit}

NAME == <<"name">>
ARGUMENTS == <<"arguments">>

\* the text of {"k": v}
Obj1(k, v) == <<LB, Str(k), COLON>> \o v \o <<RB>>
\* the text of {"k1": v1,"k2": v2}
Obj2(k1, v1, k2, v2) == <<LB, Str(k1), COLON>> \o v1 \o <<COMMA, Str(k2), COLON>> \o v2 \o <<RB>>
\* the text of {"function_call": v}
CallText(v) == Obj1(FC, v)

AddArgs == Obj2(<<"a">>, <<Num("2")>>, <<"b">>, <<Num("3")>>)
AddIntent == Obj2(NAME, <<Str(<<"add">>)>>, ARGUMENTS, AddArgs)
AddStrArgsIntent == Obj2(NAME, <<Str(<<"add">>)>>, ARGUMENTS, <<Str(<<"{\"a\":2}">>)>>)
ResourceIntent(n) == Obj1(NAME, <<Str(<<GET_RESOURCE, n>>)>>)
PromptIntent(n) == Obj1(NAME, <<Str(<<USE_PROMPT, n>>)>>)

PlainAnswer == <<Word("The sum is 5.")>>
ReasonedCall == <<Word("I will add them."), SP>> \o CallText(AddIntent)

MalformedCall == <<Word("I will add them."), LB, Str(FC), COLON, LB>>

\* answers of the backend to the first completion of a turn
BackendAnswers ==
  { PlainAnswer,
    ReasonedCall,
    CallText(AddStrArgsIntent),
    CallText(ResourceIntent("alpha")),
    CallText(ResourceIntent("beta")),
    CallText(PromptIntent("greeting")),
    \* a call intent that is a string, and one without a name
    CallText(<<Str(<<"add">>)>>),
    CallText(Obj1(ARGUMENTS, <<LB, RB>>)),
    \* a marker followed by malformed JSON
    MalformedCall }

FollowupAnswer == <<Word("The result is 5.")>>

\* answers of the backend to the follow-up completion
FollowupAnswers == { FollowupAnswer, ReasonedCall }

Statuses == {HTTP_OK, 500}

\* names bound at module level in client.py by its import statements
ImportedNames ==
  {"asyncio", "json", "sys", "Optional", "AsyncExitStack", "logging", "ClientSession",
   "StdioServerParameters", "stdio_client", "LabLLM", "build_system_tools"}

(***************************************************************************)
(* State.                                                                  *)
(***************************************************************************)
VARIABLES
  pc,         \* where control is: Connecting, AwaitingUser, GeneratingFirst,
              \* AwaitingDispatch, GeneratingFollowup, Done, Handler, Exited, Crashed
  messages,   \* self.messages, the conversation log
  tools,      \* self.tools
  resources,  \* self.resources
  prompts,    \* self.prompts
  response,   \* what process_query returned to chat_loop (a content)
  error,      \* the exception being handled or that ended the program, "" if none
  turns,      \* history: number of queries handed to process_query
  turnStart,  \* history: length of the log when the current turn began
  trace,      \* history: the events of the current turn, in order
  probe,      \* parser harness: the backend reply handed to chat_completion
  parsed      \* parser harness: what chat_completion made of it

vars == <<pc, messages, tools, resources, prompts, response, error, turns, turnStart,
          trace, probe, parsed>>

NoProbe == [status |-> 0, answer |-> <<>>, function_call |-> ""]
NoParsed == [raised |-> "unset", message |-> NoMsg]

\* a log that is windowed on append: the oldest message is dropped
AppendWindowed(log, m) == Append(IF Len(log) > 2 THEN Tail(log) ELSE log, m)

\* self.messages.append(m)
AppendMessage(log, m) == Append(log, m)

\* MCPClient.__init__
Init ==
  /\ pc = "Connecting"
  /\ messages = <<>>
  /\ tools = <<>>
  /\ resources = <<>>
  /\ prompts = <<>>
  /\ response = NoContent
  /\ error = ""
  /\ turns = 0
  /\ turnStart = 0
  /\ trace = <<>>
  /\ probe = NoProbe
  /\ parsed = NoParsed

harness == <<probe, parsed>>

(***************************************************************************)
(* main and connect_to_server.                                             *)
(***************************************************************************)
\* the script path does not end with .py: ValueError leaves main
ConnectRejected ==
  /\ pc = "Connecting"
  /\ pc' = "Crashed"
  /\ error' = "ValueError"
  /\ UNCHANGED <<messages, tools, resources, prompts, response, turns, turnStart, trace, harness>>

\* a listing whose failure leaves the category undefined instead of empty
ListedOrNothing(ok, listing) == IF ok THEN listing ELSE << [name |-> <<"undefined">>] >>

\* try: self.x = (await list_x()).x  except Exception: self.x = []
Listed(ok, listing) == IF ok THEN listing ELSE <<>>

\* the three listings, each of which may fail, and the system message
ConnectToServer ==
  /\ pc = "Connecting"
  /\ \E okTools \in BOOLEAN, okResources \in BOOLEAN, okPrompts \in BOOLEAN :
       /\ tools' = Listed(okTools, ProviderTools)
       /\ resources' = Listed(okResources, ProviderResources)
       /\ prompts' = Listed(okPrompts, ProviderPrompts)
       /\ trace' = <<ListEv("list_tools", okTools),
                     ListEv("list_resources", okResources),
                     ListEv("list_prompts", okPrompts)>>
       /\ messages' = AppendMessage(messages,
            Message("system", Text(SYSTEM_MESSAGE \o BuildSystemTools(tools')), Absent, Absent))
  /\ pc' = "AwaitingUser"
  /\ UNCHANGED <<response, error, turns, turnStart, harness>>

(***************************************************************************)
(* chat_loop and process_query, one action per step between two            *)
(* suspension points (input, backend request, provider request).           *)
(***************************************************************************)
\* input() returns 'quit': the loop breaks
ReadQuit ==
  /\ pc = "AwaitingUser"
  /\ \E query \in Inputs : query = Quit
  /\ pc' = "Exited"
  /\ UNCHANGED <<messages, tools, resources, prompts, response, error, turns, turnStart,
                 trace, harness>>

\* input() raises (end of input): caught by the loop's handler
ReadFails ==
  /\ pc = "AwaitingUser"
  /\ pc' = "Handler"
  /\ error' = "EOFError"
  /\ UNCHANGED <<messages, tools, resources, prompts, response, turns, turnStart, trace, harness>>

\* input() returns a query; process_query appends the user message
ReadQuery ==
  /\ pc = "AwaitingUser"
  /\ turns < MaxTurns
  /\ \E query \in Inputs \ {Quit} :
       LET m == Message("user", Text(query), Absent, Absent) IN
       /\ messages' = AppendMessage(messages, m)
       /\ trace' = <<AppendEv(m)>>
  /\ turnStart' = Len(messages)
  /\ turns' = turns + 1
  /\ response' = NoContent
  /\ pc' = "GeneratingFirst"
  /\ UNCHANGED <<tools, resources, prompts, error, harness>>

\* a return that reads a key the message does not have and so yields the default
AfterFirstDefault(raw_resp, asked) ==
  IF raw_resp.raised # ""
  THEN /\ pc' = "Handler"
       /\ error' = raw_resp.raised
       /\ trace' = asked
       /\ UNCHANGED <<messages, response>>
  ELSE /\ messages' = AppendMessage(messages, raw_resp.message)
       /\ trace' = Append(asked, AppendEv(raw_resp.message))
       /\ IF Truthy(MsgGet(raw_resp.message.function_call))
          THEN pc' = "AwaitingDispatch" /\ UNCHANGED response
          ELSE pc' = "Done" /\ response' = Text(<<Word("I didn't use any tools.")>>)
       /\ UNCHANGED error

\* a turn that returns after the first message whatever it carries
AfterFirstReturns(raw_resp, asked) ==
  IF raw_resp.raised # ""
  THEN /\ pc' = "Handler"
       /\ error' = raw_resp.raised
       /\ trace' = asked
       /\ UNCHANGED <<messages, response>>
  ELSE /\ messages' = AppendMessage(messages, raw_resp.message)
       /\ trace' = Append(asked, AppendEv(raw_resp.message))
       /\ pc' = "Done"
       /\ response' = raw_resp.message.content
       /\ UNCHANGED error

\* process_query once the first completion returned or raised
AfterFirst(raw_resp, asked) ==
  IF raw_resp.raised # ""
  THEN /\ pc' = "Handler"
       /\ error' = raw_resp.raised
       /\ trace' = asked
       /\ UNCHANGED <<messages, response>>
  ELSE /\ messages' = AppendMessage(messages, raw_resp.message)
       /\ trace' = Append(asked, AppendEv(raw_resp.message))
       /\ IF Truthy(MsgGet(raw_resp.message.function_call))
          THEN pc' = "AwaitingDispatch" /\ UNCHANGED response
          ELSE pc' = "Done" /\ response' = raw_resp.message.content
       /\ UNCHANGED error

\* the first completion, function_call="auto", up to the branch on fn_call
FirstCompletion ==
  /\ pc = "GeneratingFirst"
  /\ \E status \in Statuses, answer \in BackendAnswers :
       /\ status # HTTP_OK => answer = PlainAnswer
       /\ AfterFirst(ChatCompletion(status, answer, "auto"),
                     Append(trace, CompleteEv("auto", status, answer,
                                              ProjectFunctions(tools, resources, prompts),
                                              Prompt(messages))))
  /\ UNCHANGED <<tools, resources, prompts, turns, turnStart, harness>>

\* a dispatch whose failure is taken for an empty result
AfterDispatchRecovered(d) ==
  /\ messages' = AppendMessage(messages, FunctionMessage(d.fn_name, d.text))
  /\ trace' = (trace \o d.ops) \o <<AppendEv(FunctionMessage(d.fn_name, d.text))>>
  /\ pc' = "GeneratingFollowup"
  /\ UNCHANGED error

\* process_query once the dispatch produced result_content or raised
AfterDispatch(d) ==
  IF d.raised # ""
  THEN /\ pc' = "Handler"
       /\ error' = d.raised
       /\ trace' = trace \o d.ops
       /\ UNCHANGED messages
  ELSE /\ messages' = AppendMessage(messages, FunctionMessage(d.fn_name, d.text))
       /\ trace' = (trace \o d.ops) \o <<AppendEv(FunctionMessage(d.fn_name, d.text))>>
       /\ pc' = "GeneratingFollowup"
       /\ UNCHANGED error

\* argument decoding, the dispatch by category, and the function message
DispatchCall ==
  /\ pc = "AwaitingDispatch"
  /\ \E outcome \in ProviderOutcomes :
       AfterDispatch(Dispatch(MsgGet(messages[Len(messages)].function_call), resources, outcome))
  /\ UNCHANGED <<tools, resources, prompts, response, turns, turnStart, harness>>

\* a turn that returns the dispatch result instead of the follow-up's content
AfterFollowupReturnsResult(followup, asked) ==
  IF followup.raised # ""
  THEN /\ pc' = "Handler"
       /\ error' = followup.raised
       /\ trace' = asked
       /\ UNCHANGED <<messages, response>>
  ELSE /\ messages' = AppendMessage(messages, followup.message)
       /\ trace' = Append(asked, AppendEv(followup.message))
       /\ response' = messages[Len(messages)].content
       /\ pc' = "Done"
       /\ UNCHANGED error

\* a follow-up whose message is returned but never appended to the log
AfterFollowupNotAppended(followup, asked) ==
  IF followup.raised # ""
  THEN /\ pc' = "Handler"
       /\ error' = followup.raised
       /\ trace' = asked
       /\ UNCHANGED <<messages, response>>
  ELSE /\ trace' = asked
       /\ response' = followup.message.content
       /\ pc' = "Done"
       /\ UNCHANGED <<messages, error>>

\* process_query once the follow-up completion returned or raised
AfterFollowup(followup, asked) ==
  IF followup.raised # ""
  THEN /\ pc' = "Handler"
       /\ error' = followup.raised
       /\ trace' = asked
       /\ UNCHANGED <<messages, response>>
  ELSE /\ messages' = AppendMessage(messages, followup.message)
       /\ trace' = Append(asked, AppendEv(followup.message))
       /\ response' = followup.message.content
       /\ pc' = "Done"
       /\ UNCHANGED error

\* the follow-up completion, function_call="none", and the return
FollowupCompletion ==
  /\ pc = "GeneratingFollowup"
  /\ \E status \in Statuses, answer \in FollowupAnswers :
       /\ status # HTTP_OK => answer = FollowupAnswer
       /\ AfterFollowup(ChatCompletion(status, answer, "none"),
                        Append(trace, CompleteEv("none", status, answer, <<>>, Prompt(messages))))
  /\ UNCHANGED <<tools, resources, prompts, turns, turnStart, harness>>

\* print("\n" + response), then the next iteration
PrintResponse ==
  /\ pc = "Done"
  /\ IF response.isNone
     THEN pc' = "Handler" /\ error' = "TypeError"
     ELSE pc' = "AwaitingUser" /\ UNCHANGED error
  /\ UNCHANGED <<messages, tools, resources, prompts, response, turns, turnStart, trace, harness>>

\* except Exception as e: print the error, print(traceback.format_exc())
HandleException ==
  /\ pc = "Handler"
  /\ IF "traceback" \in ImportedNames
     THEN pc' = "AwaitingUser" /\ UNCHANGED error
     ELSE pc' = "Crashed" /\ error' = "NameError"
  /\ UNCHANGED <<messages, tools, resources, prompts, response, turns, turnStart, trace, harness>>

Next ==
  \/ ConnectRejected
  \/ ConnectToServer
  \/ ReadQuit
  \/ ReadFails
  \/ ReadQuery
  \/ FirstCompletion
  \/ DispatchCall
  \/ FollowupCompletion
  \/ PrintResponse
  \/ HandleException

Spec == Init /\ [][Next]_vars

(***************************************************************************)
(* The response parser on its own: chat_completion applied to one backend  *)
(* reply drawn from a set of texts built from prefixes, bodies, suffixes.  *)
(***************************************************************************)
NestedCall == Obj2(<<"x">>, CallText(<<Num("1")>>), FC, AddIntent)

ProbePrefixes ==
  { <<>>,
    <<SP>>,
    <<Word("I will add them.")>>,
    <<Word("I will add them."), SP>>,
    \* prose that itself quotes the marker
    <<Word("I emit"), LB, Str(FC), COLON, Word("now:")>> }

ProbeBodies ==
  { CallText(AddIntent),
    CallText(ResourceIntent("alpha")),
    CallText(<<Str(<<"add">>)>>),
    \* falsy call intents
    CallText(<<LB, RB>>),
    CallText(<<NULLTOK>>),
    CallText(<<Num("0")>>),
    \* the same object written with whitespace, other keys, a nested marker, a repeated key
    <<LB, SP, Str(FC), COLON, SP>> \o AddIntent \o <<SP, RB>>,
    <<LB, Str(FC), SP, COLON>> \o AddIntent \o <<RB>>,
    Obj2(<<"note">>, <<Str(<<"x">>)>>, FC, AddIntent),
    NestedCall,
    Obj2(FC, AddIntent, FC, PromptIntent("greeting")),
    \* no call: prose, nothing, malformed JSON, JSON that is no call object
    PlainAnswer,
    <<>>,
    <<LB, Str(FC), COLON, LB>>,
    <<LB, Str(FC), COLON, Str(<<"add">>), COMMA, RB>>,
    <<Str(<<"hello">>)>>,
    <<NULLTOK>>,
    Obj1(NAME, <<Str(<<"add">>)>>) }

ProbeSuffixes == { <<>>, <<SP>>, <<Word("Done.")>>, <<RB>> }

ProbeAnswers ==
  { (p \o b) \o x : p \in ProbePrefixes, b \in ProbeBodies, x \in ProbeSuffixes }

Probes ==
  [status : {HTTP_OK}, answer : ProbeAnswers, function_call : {"auto", "none"}]
    \cup [status : {500}, answer : {PlainAnswer}, function_call : {"auto", "none"}]

ParserInit ==
  /\ pc = "Parsing"
  /\ messages = <<>>
  /\ tools = <<>>
  /\ resources = <<>>
  /\ prompts = <<>>
  /\ response = NoContent
  /\ error = ""
  /\ turns = 0
  /\ turnStart = 0
  /\ trace = <<>>
  /\ probe \in Probes
  /\ parsed = NoParsed

\* chat_completion on the probe
ParseProbe ==
  /\ pc = "Parsing"
  /\ parsed' = ChatCompletion(probe.status, probe.answer, probe.function_call)
  /\ pc' = "Parsed"
  /\ UNCHANGED <<messages, tools, resources, prompts, response, error, turns, turnStart,
                 trace, probe>>

ParserNext == ParseProbe

ParserSpec == ParserInit /\ [][ParserNext]_vars

(***************************************************************************)
(* The dispatch on its own: process_query from the branch on fn_call to    *)
(* the function message, for the registry listed from any provider of a    *)
(* bounded size and any first message that carries a named call intent.    *)
(***************************************************************************)
\* number of capabilities a provider lists per category
MaxListed == 2

\* the sequences of at most MaxListed elements of S
Listings(S) == UNION {[1..n -> S] : n \in 0..MaxListed}

\* what a provider may list: a name may be shared between categories, and
\* may itself hold a prefix
ListedTools ==
  { [name |-> <<"add">>], [name |-> <<"alpha">>], [name |-> <<GET_RESOURCE, "alpha">>] }
ListedResources ==
  { [name |-> <<"alpha">>, uri |-> "file:///alpha"],
    [name |-> <<GET_RESOURCE, "alpha">>, uri |-> "file:///nested"] }
ListedPrompts == { [name |-> <<"greeting">>], [name |-> <<USE_PROMPT, "greeting">>] }

\* self.tools, self.resources, self.prompts after connect_to_server
Registries ==
  [tools : Listings(ListedTools), resources : Listings(ListedResources),
   prompts : Listings(ListedPrompts)]

\* the text of {"name": "<s>"} and of {"name": "add","arguments": v}
NamedIntent(s) == Obj1(NAME, <<Str(s)>>)
AddWith(v) == Obj2(NAME, <<Str(<<"add">>)>>, ARGUMENTS, v)

\* answers of the backend that carry a named call intent
DispatchAnswers ==
  { \* arguments: a mapping, absent, JSON in a string, and what cannot be decoded
    CallText(AddIntent),
    CallText(NamedIntent(<<"add">>)),
    CallText(AddStrArgsIntent),
    CallText(AddWith(<<Str(<<"5">>)>>)),
    CallText(AddWith(<<Str(<<"oops">>)>>)),
    CallText(AddWith(<<Str(<<>>)>>)),
    CallText(AddWith(<<Num("5")>>)),
    CallText(AddWith(<<NULLTOK>>)),
    \* resources and prompts, by names with one prefix and with two
    CallText(ResourceIntent("alpha")),
    CallText(ResourceIntent("beta")),
    CallText(NamedIntent(<<GET_RESOURCE, GET_RESOURCE, "alpha">>)),
    CallText(PromptIntent("greeting")),
    CallText(NamedIntent(<<USE_PROMPT, USE_PROMPT, "greeting">>)) }

\* the state at the branch on fn_call: the log holds the system message, the
\* user message and the first message, the trace the events that led there
Dispatching(registry, answer, system, user, first) ==
  /\ tools = registry.tools
  /\ resources = registry.resources
  /\ prompts = registry.prompts
  /\ messages = <<system, user, first>>
  /\ trace = <<AppendEv(user),
               CompleteEv("auto", HTTP_OK, answer,
                          ProjectFunctions(registry.tools, registry.resources, registry.prompts),
                          Prompt(<<system, user>>)),
               AppendEv(first)>>

DispatchInit ==
  /\ pc = "AwaitingDispatch"
  /\ \E registry \in Registries, answer \in DispatchAnswers :
       Dispatching(registry, answer,
                   Message("system", Text(SYSTEM_MESSAGE \o BuildSystemTools(registry.tools)),
                           Absent, Absent),
                   Message("user", Text(Query), Absent, Absent),
                   ChatCompletion(HTTP_OK, answer, "auto").message)
  /\ response = NoContent
  /\ error = ""
  /\ turns = 1
  /\ turnStart = 1
  /\ probe = NoProbe
  /\ parsed = NoParsed

DispatchNext == DispatchCall

DispatchSpec == DispatchInit /\ [][DispatchNext]_vars

(***************************************************************************)
(* Properties.                                                             *)
(***************************************************************************)
\* the positions of the function-result messages in the log
FunctionResults == {i \in 1..Len(messages) : messages[i].role = "function"}

\* control is back in chat_loop: process_query returned or raised
TurnEnded == pc \in {"Done", "AwaitingUser", "Exited", "Handler", "Crashed"}

\* the follow-up completion of the current turn failed at the backend
FollowupFailed ==
  /\ pc \in {"Handler", "Crashed"}
  /\ trace # <<>>
  /\ trace[Len(trace)].op = "complete"
  /\ trace[Len(trace)].mode = "none"
  /\ trace[Len(trace)].status # HTTP_OK

\* C1 (as claimed): once the turn that appended it has ended, normally or by
\* a failure, every function-result message is immediately followed by an
\* assistant message, so it is never the last message of the log.
C1_ResultAnsweredAfterAnyTurn ==
  TurnEnded =>
    \A i \in FunctionResults : i < Len(messages) /\ messages[i + 1].role = "assistant"

\* C1 (amended): every function-result message is immediately followed by an
\* assistant message once its turn has returned normally; it is the last
\* message only while the follow-up completion is pending, or after that
\* completion failed at the backend and process_query raised.
C1_ResultAnsweredOnReturn ==
  \A i \in FunctionResults :
    IF i < Len(messages)
    THEN messages[i + 1].role = "assistant"
    ELSE pc = "GeneratingFollowup" \/ FollowupFailed

\* C1 witness: a turn with a dispatch has returned
C1_Witness ==
  /\ pc = "Done"
  /\ FunctionResults # {}
  /\ Len(messages) - 1 \in FunctionResults

\* C2: every function-result message directly follows an assistant message
\* that carries a call intent, and is named after that call intent.
C2_ResultFollowsItsCall ==
  \A i \in FunctionResults :
    /\ i > 1
    /\ messages[i - 1].role = "assistant"
    /\ Truthy(MsgGet(messages[i - 1].function_call))
    /\ messages[i].name = DictGet(messages[i - 1].function_call, NAME, PyNone)

\* C2 witness: the result of a resource call is in the log
C2_Witness ==
  \E i \in FunctionResults :
    /\ messages[i].name.t = "str"
    /\ StartsWith(messages[i].name.s, GET_RESOURCE)

\* C3: the log only grows at its end: the log before a step is a prefix of
\* the log after it, also for a step that ends in an exception.
C3_AppendOnly ==
  [][/\ Len(messages) <= Len(messages')
     /\ SubSeq(messages', 1, Len(messages)) = messages]_vars

\* C3 witness: a turn appended to the log and then raised
C3_Witness ==
  /\ pc = "Handler"
  /\ error = "ProviderError"
  /\ Len(messages) = turnStart + 2

\* C4: when process_query raised because of a backend HTTP error or a
\* provider failure, the loop's handler leads back to awaiting the next input.
C4_LoopSurvivesFailure ==
  [][(pc = "Handler" /\ error \in {"LabLLMError", "ProviderError"}) => pc' = "AwaitingUser"]_vars

\* the text before position i + 1 of an answer, and the text from there on
PrefixOf(answer, i) == SubSeq(answer, 1, i)
BodyOf(answer, i) == SubSeq(answer, i + 1, Len(answer))

\* non-JSON text, possibly empty
NonJson(txt) == txt = <<>> \/ ~JsonLoads(txt).ok

\* txt is a JSON object with key "function_call"
IsCallObject(txt) ==
  /\ JsonLoads(txt).ok
  /\ JsonLoads(txt).val.t = "dict"
  /\ HasKey(JsonLoads(txt).val, FC)

\* the value V of that key
IntentOf(txt) == Lookup(JsonLoads(txt).val, FC)

\* the ways to read an answer as <prefix><JSON object with key function_call>
CallSplits(answer) ==
  {i \in 0..Len(answer) : NonJson(PrefixOf(answer, i)) /\ IsCallObject(BodyOf(answer, i))}

\* the splits whose call intent is truthy and whose prefix is empty or, when
\* it is not, does not contain the marker and is followed by an object that
\* begins with the literal marker
MarkedSplits(answer) ==
  {i \in CallSplits(answer) :
     /\ Truthy(IntentOf(BodyOf(answer, i)))
     /\ \/ i = 0
        \/ /\ SubSeq(BodyOf(answer, i), 1, Len(Marker)) = Marker
           /\ Find(PrefixOf(answer, i)) = NotFound}

\* a completion with call intents allowed has returned or raised
ParsedAuto == pc = "Parsed" /\ probe.status = HTTP_OK /\ probe.function_call = "auto"

\* the message carries call intent v and no visible content
IsCall(r, v) ==
  /\ r.raised = ""
  /\ r.message.role = "assistant"
  /\ r.message.function_call = v
  /\ r.message.content = NoContent

\* the message is the plain text, without call intent
IsPlain(r, answer) ==
  /\ r.raised = ""
  /\ r.message = Message("assistant", Text(answer), Absent, Absent)

\* C5 (as claimed): for every answer <prefix><JSON object with key
\* function_call at V>, prefix non-JSON or empty, the completion returns
\* call intent V and empty content.
C5_AnyPrefixedCallIsParsed ==
  ParsedAuto =>
    \A i \in CallSplits(probe.answer) : IsCall(parsed, IntentOf(BodyOf(probe.answer, i)))

\* C5 (amended): the same, for a truthy V and a prefix that is empty or else
\* does not contain the literal marker {"function_call": and is followed by
\* a JSON object that begins with that marker.
C5_MarkedCallIsParsed ==
  ParsedAuto =>
    \A i \in MarkedSplits(probe.answer) : IsCall(parsed, IntentOf(BodyOf(probe.answer, i)))

\* C5 witness: a call parsed from behind a non-empty prose prefix
C5_Witness ==
  /\ ParsedAuto
  /\ \E i \in MarkedSplits(probe.answer) : i > 0 /\ PrefixOf(probe.answer, i)[1][1] = "word"

\* the events of the current turn that are completions, provider operations
Completions == {i \in 1..Len(trace) : trace[i].op = "complete"}
ProviderCalls == {i \in 1..Len(trace) : trace[i].op \in ProviderOps}

\* the message carries a call intent
HasIntent(m) == m.role = "assistant" /\ Truthy(MsgGet(m.function_call))

\* the states of a turn and the steps between them
TurnStates == {"AwaitingUser", "GeneratingFirst", "AwaitingDispatch", "GeneratingFollowup", "Done"}
TurnSteps ==
  { <<"AwaitingUser", "GeneratingFirst">>,
    <<"GeneratingFirst", "Done">>,
    <<"GeneratingFirst", "AwaitingDispatch">>,
    <<"AwaitingDispatch", "GeneratingFollowup">>,
    <<"GeneratingFollowup", "Done">>,
    <<"Done", "AwaitingUser">> }

C6_TurnBudget ==
  /\ Cardinality(Completions) <= 2
  /\ Cardinality(ProviderCalls) <= 1
  \* the first completion allows a call, a second one does not
  /\ \A i \in Completions :
       trace[i].mode = (IF \E j \in Completions : j < i THEN "none" ELSE "auto")
  \* a dispatch comes after a first completion that returned a call intent
  /\ \A i \in ProviderCalls :
       \E j \in 2..(i - 1) :
         /\ trace[j].op = "append" /\ HasIntent(trace[j].msg)
         /\ trace[j - 1].op = "complete" /\ trace[j - 1].mode = "auto"
  \* a follow-up completion comes right after the append of a dispatch result
  /\ \A i \in Completions :
       trace[i].mode = "none" =>
         i > 1 /\ trace[i - 1].op = "append" /\ trace[i - 1].msg.role = "function"

\* C6: a turn goes AwaitingUser -> GeneratingFirst -> {Done | AwaitingDispatch}
\* -> GeneratingFollowup -> Done, with at most two completions and one
\* provider operation, the dispatch after a first completion that returned a
\* call intent and the follow-up after the dispatch result was appended.
C6_TurnStateMachine ==
  /\ []C6_TurnBudget
  /\ [][(pc \in TurnStates /\ pc' \in TurnStates /\ pc' # pc) => <<pc, pc'>> \in TurnSteps]_vars

\* C6 witness: a turn with two completions and one provider operation returned
C6_Witness ==
  /\ pc = "Done"
  /\ Cardinality(Completions) = 2
  /\ Cardinality(ProviderCalls) = 1

\* C7: a completion with call intents disabled returns an assistant message
\* without call intent whose content is the backend text verbatim.
C7_FollowupNeverCalls ==
  \A i \in Completions :
    (trace[i].mode = "none" /\ trace[i].status = HTTP_OK) =>
      /\ i < Len(trace)
      /\ trace[i + 1] = AppendEv(Message("assistant", Text(trace[i].text), Absent, Absent))
      /\ messages[Len(messages)] = trace[i + 1].msg

\* C7 witness: the follow-up answer held a well-formed function_call object
C7_Witness ==
  /\ pc = "Done"
  /\ \E i \in Completions :
       /\ trace[i].mode = "none"
       /\ trace[i].status = HTTP_OK
       /\ CallSplits(trace[i].text) # {}

\* the message is a call intent that names a tool: a string name without the
\* resource or prompt prefix
NamesTool(m) ==
  /\ HasIntent(m)
  /\ m.function_call.t = "dict"
  /\ DictGet(m.function_call, NAME, PyNone).t = "str"
  /\ ~StartsWith(DictGet(m.function_call, NAME, PyNone).s, GET_RESOURCE)
  /\ ~StartsWith(DictGet(m.function_call, NAME, PyNone).s, USE_PROMPT)

\* the first completion of the current turn returned a call intent naming a tool
ToolTurn == Len(trace) >= 3 /\ trace[3].op = "append" /\ NamesTool(trace[3].msg)

\* the events of a tool turn after the first message, as far as the turn got
ToolTurnOrder ==
  LET intent == trace[3].msg.function_call
      n == Len(trace)
  IN /\ n <= 7
     /\ n >= 4 =>
          /\ trace[4].op = "call_tool"
          /\ trace[4].name = DictGet(intent, NAME, PyNone)
          /\ DictGet(intent, ARGUMENTS, PyNone).t = "dict" =>
               trace[4].args = DictGet(intent, ARGUMENTS, PyNone)
     /\ n >= 5 =>
          /\ trace[5].op = "append"
          /\ trace[5].msg.role = "function"
          /\ messages[turnStart + 3] = trace[5].msg
     /\ n >= 6 => trace[6].op = "complete" /\ trace[6].mode = "none"
     /\ n >= 7 =>
          /\ trace[7].op = "append"
          /\ trace[7].msg.role = "assistant"
          /\ messages[turnStart + 4] = trace[7].msg

\* C8: after a first completion that returned a call intent naming a tool,
\* the turn performs in this order callTool(name, arguments), the append of
\* the function-result message, the follow-up completion with call intents
\* disabled and the append of its message, and returns that message's content.
C8_ToolTurnSequence ==
  ToolTurn =>
    /\ ToolTurnOrder
    /\ pc \in {"Done", "AwaitingUser", "Exited"} =>
         /\ Len(trace) = 7
         /\ Len(messages) = turnStart + 4
         /\ response = trace[7].msg.content

\* C8 witness: the turn of "I will add them." + call of add(a, b) has returned
C8_Witness ==
  /\ pc = "Done"
  /\ ToolTurn
  /\ trace[2].text = ReasonedCall
  /\ trace[4].args.t = "dict"
  /\ Len(trace[4].args.kv) = 2

\* the first completion of the current turn got a text without marker that is no JSON
PlainTurn ==
  /\ Len(trace) >= 2
  /\ trace[2].op = "complete"
  /\ trace[2].status = HTTP_OK
  /\ Find(trace[2].text) = NotFound
  /\ ~JsonLoads(trace[2].text).ok

\* C9: such a turn invokes no provider operation and no follow-up completion,
\* appends exactly the user message and one assistant message without call
\* intent, and returns the backend text verbatim.
C9_PlainTextTurn ==
  PlainTurn =>
    /\ ProviderCalls = {}
    /\ Completions = {2}
    /\ pc \notin {"GeneratingFirst", "AwaitingDispatch", "GeneratingFollowup"}
    /\ Len(messages) = turnStart + 2
    /\ messages[turnStart + 1].role = "user"
    /\ messages[turnStart + 2] = Message("assistant", Text(trace[2].text), Absent, Absent)
    /\ response = Text(trace[2].text)

\* C9 witness: a plain-text turn has returned
C9_Witness == pc = "Done" /\ PlainTurn /\ trace[2].text = PlainAnswer

\* the text from the marker on is malformed JSON
MalformedAfterMarker(answer) ==
  /\ Find(answer) # NotFound
  /\ ~JsonLoads(Strip(SubSeq(answer, Find(answer), Len(answer)))).ok

\* C10: the parser never raises; when the text after the marker is malformed
\* JSON the whole text is tried, and when that is no call object either the
\* full text is returned as plain content without call intent.
C10_ParserFallsThrough ==
  (pc = "Parsed" /\ probe.status = HTTP_OK) =>
    /\ parsed.raised = ""
    /\ (probe.function_call = "auto" /\ MalformedAfterMarker(probe.answer)) =>
         IF IsCallObject(probe.answer) /\ Truthy(IntentOf(probe.answer))
         THEN IsCall(parsed, IntentOf(probe.answer))
         ELSE IsPlain(parsed, probe.answer)

\* C10 witness: malformed JSON after the marker, and the whole text is no JSON
C10_Witness ==
  /\ ParsedAuto
  /\ MalformedAfterMarker(probe.answer)
  /\ ~JsonLoads(probe.answer).ok
  /\ parsed.raised = ""

\* the first message of the current turn carries a call intent with a string
\* name, and the dispatch of that intent is over
Dispatched ==
  /\ Len(trace) >= 3
  /\ trace[3].op = "append"
  /\ HasIntent(trace[3].msg)
  /\ trace[3].msg.function_call.t = "dict"
  /\ DictGet(trace[3].msg.function_call, NAME, PyNone).t = "str"
  /\ pc # "AwaitingDispatch"

\* the name of that call intent, and the name <n> behind its leading prefix
IntentName == DictGet(trace[3].msg.function_call, NAME, PyNone)
Unprefixed == Tail(IntentName.s)

\* the list holds a capability named n
Holds(list, n) == \E i \in 1..Len(list) : list[i].name = n

\* the content is a not-found text followed by the instruction suffix
IsNotFound(content) ==
  /\ ~content.isNone
  /\ Len(content.text) = 2
  /\ content.text[1][2] = "Resource '"
  /\ content.text[1][Len(content.text[1])] = "' not found."
  /\ content.text[2] = ResultSuffix

\* the call intent is named get_resource_<n> and no resource is named <n>
UnknownResource ==
  /\ Dispatched
  /\ StartsWith(IntentName.s, GET_RESOURCE)
  /\ ~Holds(resources, Unprefixed)

\* C11: dispatching get_resource_<n> when no resource is named <n> invokes
\* no provider operation and does not raise: the not-found text is appended
\* as the function-result message, and the follow-up completion comes next.
C11_UnknownResourceNotFound ==
  UnknownResource =>
    /\ ProviderCalls = {}
    /\ Len(trace) >= 4
    /\ trace[4].op = "append"
    /\ trace[4].msg.role = "function"
    /\ IsNotFound(trace[4].msg.content)
    /\ messages[turnStart + 3] = trace[4].msg
    /\ \/ pc = "GeneratingFollowup"
       \/ Len(trace) >= 5 /\ trace[5].op = "complete" /\ trace[5].mode = "none"

\* the arguments field of that call intent, Absent when it has none
ArgumentsField == DictGet(trace[3].msg.function_call, ARGUMENTS, Absent)

\* the field is absent, of a type other than string and mapping, an empty
\* string, or a string that is not JSON
NoArguments(v) ==
  \/ v.t \in {"absent", "None", "num"}
  \/ v.t = "str" /\ (v.s = <<>> \/ ~JsonLoads(Lex(v.s)).ok)

\* C12: whatever the arguments field of a named call intent is, the step
\* after the first message is the dispatch (a provider operation, or the
\* not-found result), never an exception of the argument decoding; a tool is
\* called with the mapping given, with the value decoded from a JSON string,
\* and with an empty mapping when the field is absent or cannot be decoded.
C12_ArgumentsNeverAbort ==
  Dispatched =>
    /\ Len(trace) >= 4
    /\ trace[4].op \in ProviderOps \cup {"append"}
    /\ trace[4].op = "append" => IsNotFound(trace[4].msg.content)
    /\ NamesTool(trace[3].msg) =>
         /\ trace[4].op = "call_tool"
         /\ trace[4].name = IntentName
         /\ NoArguments(ArgumentsField) => trace[4].args = PyDict(<<>>)
         /\ ArgumentsField.t = "dict" => trace[4].args = ArgumentsField
         /\ (ArgumentsField.t = "str" /\ ~NoArguments(ArgumentsField)) =>
              trace[4].args = JsonLoads(Lex(ArgumentsField.s)).val

\* C12 witness: a tool was called with {} because its arguments were a
\* string that is not JSON
C12_Witness ==
  /\ Dispatched
  /\ ArgumentsField = PyStr(<<"oops">>)
  /\ trace[4].op = "call_tool"
  /\ trace[4].args = PyDict(<<>>)
  /\ pc = "GeneratingFollowup"

\* the first completion of the current turn failed with a backend HTTP error
FirstFailed ==
  /\ Len(trace) >= 2
  /\ trace[2].op = "complete"
  /\ trace[2].mode = "auto"
  /\ trace[2].status # HTTP_OK

\* after such a failure: control is with the caller's handler, the turn
\* appended its user message and nothing else, and invoked no provider operation
FailedAfterUserMessage ==
  FirstFailed =>
    /\ pc \in {"Handler", "Crashed"}
    /\ Len(trace) = 2
    /\ ProviderCalls = {}
    /\ Len(messages) = turnStart + 1
    /\ messages[turnStart + 1].role = "user"
    /\ \A i \in 1..Len(messages) : i > turnStart => messages[i].role \notin {"assistant", "function"}

\* C13: when the first completion of a turn fails with a backend HTTP error,
\* process_query raises, and the log is the log before the turn plus exactly
\* the user message: no assistant or function-result message is appended
\* and no provider operation is invoked.
C13_FirstFailureKeepsUserMessage ==
  /\ []FailedAfterUserMessage
  \* the turn begins by appending the user message to the log as it was
  /\ [][(pc = "AwaitingUser" /\ pc' = "GeneratingFirst") =>
          /\ turnStart' = Len(messages)
          /\ Len(messages') = Len(messages) + 1
          /\ SubSeq(messages', 1, Len(messages)) = messages]_vars
  \* the failing completion raises and leaves the log alone
  /\ [][(pc = "GeneratingFirst" /\ FirstFailed') =>
          /\ pc' = "Handler"
          /\ error' = "LabLLMError"
          /\ messages' = messages]_vars

\* C13 witness: the first completion of a later turn failed
C13_Witness ==
  /\ pc = "Handler"
  /\ FirstFailed
  /\ turnStart > 1
  /\ error = "LabLLMError"

\* the three listings with the given outcomes, in the order of the code
ListingsOf(okTools, okResources, okPrompts) ==
  <<ListEv("list_tools", okTools),
    ListEv("list_resources", okResources),
    ListEv("list_prompts", okPrompts)>>

\* the session is connected and no turn has begun: the trace holds the listings
JustConnected == trace # <<>> /\ trace[1].op = "list_tools"

\* what a category holds after its listing
Category(ev, listing) == IF ev.mode = "ok" THEN listing ELSE <<>>

\* each listing was made once, each category holds what its own listing gave,
\* and the session went on to the interactive loop
ListingsIndependent ==
  JustConnected =>
    /\ \E a \in BOOLEAN, b \in BOOLEAN, c \in BOOLEAN : trace = ListingsOf(a, b, c)
    /\ tools = Category(trace[1], ProviderTools)
    /\ resources = Category(trace[2], ProviderResources)
    /\ prompts = Category(trace[3], ProviderPrompts)
    /\ pc \in {"AwaitingUser", "Exited", "Handler", "Crashed"}
    /\ pc = "Crashed" => error = "NameError"

\* C14: the three listings at session start are independent: for every
\* combination of failing listings the connection step completes, each
\* failed category is an empty list, each successful one holds the
\* provider's list, no listing is made twice, and the session proceeds.
C14_ListingsIndependent ==
  /\ []ListingsIndependent
  \* every combination of outcomes lets the connection step complete
  /\ [](pc = "Connecting" =>
          \A a \in BOOLEAN, b \in BOOLEAN, c \in BOOLEAN :
            ENABLED (ConnectToServer /\ pc' = "AwaitingUser" /\ trace' = ListingsOf(a, b, c)))
  \* the registry is not touched again once the session is connected
  /\ [][pc # "Connecting" => UNCHANGED <<tools, resources, prompts>>]_vars

\* C14 witness: the listing of tools and of prompts failed, that of
\* resources succeeded, and the session awaits its first input
C14_Witness ==
  /\ pc = "AwaitingUser"
  /\ trace = ListingsOf(FALSE, TRUE, FALSE)
  /\ tools = <<>>
  /\ resources = ProviderResources
  /\ prompts = <<>>

\* the names of the list are pairwise distinct
DistinctNames(list) ==
  \A i \in 1..Len(list), j \in 1..Len(list) : i # j => list[i].name # list[j].name

\* no tool name begins with a prefix of the other categories
ToolsUnprefixed ==
  \A i \in 1..Len(tools) :
    ~StartsWith(tools[i].name, GET_RESOURCE) /\ ~StartsWith(tools[i].name, USE_PROMPT)

\* names distinct within each category and tools obeying the convention
WellNamed ==
  /\ DistinctNames(tools)
  /\ DistinctNames(resources)
  /\ DistinctNames(prompts)
  /\ ToolsUnprefixed

\* the function names handed to the first completion of the current turn
Projected == trace[2].functions

\* C15: when the names are distinct within each category and no tool name
\* begins with get_resource_ or use_prompt_, the projection has one name per
\* capability and never yields the same name twice.
C15_ProjectedNamesDistinct ==
  (Len(trace) >= 2 /\ trace[2].op = "complete" /\ trace[2].mode = "auto" /\ WellNamed) =>
    /\ Len(Projected) = Len(tools) + Len(resources) + Len(prompts)
    /\ \A i \in 1..Len(Projected), j \in 1..Len(Projected) :
         i # j => Projected[i] # Projected[j]

\* C15 witness: a tool and a resource share a name, and a resource and a
\* prompt are named with their own prefix
C15_Witness ==
  /\ Len(trace) >= 2
  /\ trace[2].op = "complete"
  /\ WellNamed
  /\ Holds(tools, <<"alpha">>)
  /\ Holds(resources, <<"alpha">>)
  /\ Holds(resources, <<GET_RESOURCE, "alpha">>)
  /\ Holds(prompts, <<USE_PROMPT, "greeting">>)

\* a provider operation of the current turn raised
ProviderFailed == \E i \in ProviderCalls : trace[i].mode = "raise"

\* after such a failure: control is with the caller's handler, the log ends
\* with the assistant message that carries the call intent, and the turn
\* made no follow-up completion
FailedAfterIntent ==
  ProviderFailed =>
    /\ pc \in {"Handler", "Crashed"}
    /\ trace[Len(trace)].op \in ProviderOps
    /\ Len(messages) = turnStart + 2
    /\ HasIntent(messages[Len(messages)])
    /\ messages[Len(messages)] = trace[3].msg
    /\ \A i \in 1..Len(messages) : i > turnStart => messages[i].role # "function"
    /\ \A i \in Completions : trace[i].mode = "auto"

\* C16: a provider operation that raises during the dispatch is not
\* recovered inside the turn: process_query raises, no function-result
\* message is appended, no follow-up completion is issued, and the log ends
\* with the assistant message that carries the call intent.
C16_ProviderFailurePropagates ==
  /\ []FailedAfterIntent
  /\ [][(pc = "AwaitingDispatch" /\ ProviderFailed') =>
          /\ pc' = "Handler"
          /\ error' = "ProviderError"
          /\ messages' = messages]_vars

\* C16 witness: reading a listed resource raised
C16_Witness ==
  /\ pc = "Handler"
  /\ error = "ProviderError"
  /\ ProviderFailed
  /\ trace[Len(trace)].op = "read_resource"

\* the call intent of the current turn is named use_prompt_<n> and was dispatched
PromptCall == Dispatched /\ StartsWith(IntentName.s, USE_PROMPT)

\* the text the provider returned for event ev is the text of the result
\* message m, before the instruction suffix
ResultOf(ev, m) ==
  /\ m.role = "function"
  /\ ~m.content.isNone
  /\ \E outcome \in ProviderOutcomes :
       outcome.kind = ev.mode /\ m.content.text = outcome.text \o <<ResultSuffix>>

\* C17: dispatching use_prompt_<n> invokes the provider's prompt fetch
\* exactly once, with the name <n> (the name without its leading prefix),
\* invokes no other provider operation, and the function-result text is the
\* text of the fetched prompt.
C17_PromptFetchedByName ==
  PromptCall =>
    /\ Cardinality(ProviderCalls) = 1
    /\ trace[4].op = "get_prompt"
    /\ trace[4].name = PyStr(Unprefixed)
    /\ trace[4].mode = "text" =>
         /\ Len(trace) >= 5
         /\ trace[5].op = "append"
         /\ ResultOf(trace[4], trace[5].msg)

\* the projected function name of tool i, resource i, prompt i
ProjectedTool(i) == Projected[i]
ProjectedResource(i) == Projected[Len(tools) + i]
ProjectedPrompt(i) == Projected[Len(tools) + Len(resources) + i]

\* C18: with names distinct within each category, dispatching the call
\* intent named by the projected function name of a capability invokes the
\* provider operation of that capability's category on that capability:
\* callTool with the tool's name, readResource with the resource's locator,
\* getPrompt with the prompt's name.
C18_ProjectionRoundTrip ==
  (Dispatched /\ DistinctNames(tools) /\ DistinctNames(resources) /\ DistinctNames(prompts)) =>
    /\ \A i \in 1..Len(tools) :
         IntentName.s = ProjectedTool(i) =>
           trace[4].op = "call_tool" /\ trace[4].name = PyStr(tools[i].name)
    /\ \A i \in 1..Len(resources) :
         IntentName.s = ProjectedResource(i) =>
           trace[4].op = "read_resource" /\ trace[4].uri = resources[i].uri
    /\ \A i \in 1..Len(prompts) :
         IntentName.s = ProjectedPrompt(i) =>
           trace[4].op = "get_prompt" /\ trace[4].name = PyStr(prompts[i].name)

\* the string name occurs in the prompt: inside one of its tokens
Mentions(prompt, name) ==
  \E k \in 1..Len(prompt) :
    \E o \in 1..Len(prompt[k]) :
      /\ o + Len(name) - 1 <= Len(prompt[k])
      /\ SubSeq(prompt[k], o, o + Len(name) - 1) = name

\* C19: the request of the first completion of a turn carries every
\* projected function name (tools, resources and prompts) computed in
\* process_query.
C19_RequestCarriesFunctions ==
  \A i \in Completions :
    trace[i].mode = "auto" =>
      \A f \in 1..Len(trace[i].functions) : Mentions(trace[i].prompt, trace[i].functions[f])

\* the current turn has returned normally to chat_loop
TurnReturned ==
  /\ pc \in {"Done", "AwaitingUser", "Exited"}
  /\ Len(trace) >= 3
  /\ trace[1].op = "append"
  /\ trace[3].op = "append"

\* C20: after every turn that returned normally the last message of the
\* log is an assistant message without call intent, the text returned is
\* that message's content, and the log has grown by exactly two messages
\* when the first message carried no call intent and by exactly four when
\* it carried one, which was dispatched.
C20_NormalReturn ==
  TurnReturned =>
    /\ messages[Len(messages)].role = "assistant"
    /\ ~HasIntent(messages[Len(messages)])
    /\ messages[Len(messages)].function_call = Absent
    /\ ~response.isNone
    /\ response = messages[Len(messages)].content
    /\ IF HasIntent(trace[3].msg)
       THEN /\ Len(messages) = turnStart + 4
            /\ messages[turnStart + 3].role = "function"
            /\ Cardinality(Completions) = 2
       ELSE /\ Len(messages) = turnStart + 2
            /\ Cardinality(Completions) = 1
            /\ ProviderCalls = {}

\* C20 witness: a turn without call intent has returned after a turn with a
\* dispatch
C20_Witness ==
  /\ pc = "Done"
  /\ TurnReturned
  /\ ~HasIntent(trace[3].msg)
  /\ turnStart = 5
  /\ messages[4].role = "function"

====
